---- MODULE Spec2Model ----
(***************************************************************************)
(* Topmodel_Homogenous (src/topmodel.py): the catchment-mean saturation    *)
(* deficit S, its construction from terrain grids and its explicit         *)
(* per-timestep update.                                                    *)
(*                                                                         *)
(* Numbers.  A Python/numpy float is modelled by an exact rational <<n,d>> *)
(* in lowest terms with d > 0; <<0,0>> is NaN.  +, -, * and / are exact,   *)
(* NaN propagates through arithmetic and every comparison with NaN is      *)
(* false, as in IEEE-754.  The transcendental functions np.log, np.exp and *)
(* np.tan are finite-precision functions in the code; they are modelled as *)
(* monotone rational functions rounded to a finite grid (see Ln, Exp,      *)
(* TanDeg).  Grids are 2-D: a sequence of rows, each a sequence of cells.  *)
(*                                                                         *)
(* Spec runs the program in exact arithmetic.  SpecRounded runs the same   *)
(* constructor and timestep with the result of every float operation       *)
(* rounded to the nearest float of Prec significant binary digits.         *)
(***************************************************************************)
EXTENDS Integers, Sequences, FiniteSets, TLC

(***************************** bounds ***************************************)
\* number of columns of the one-row grids that are enumerated
MaxCols == 2
\* number of run_timestep calls in one run
MaxSteps == 2

(***************************** rationals ************************************)
NaN == <<0, 0>>

IsNaN(x) == x[2] = 0

AbsInt(i) == IF i < 0 THEN -i ELSE i

RECURSIVE GCD(_, _)
GCD(a, b) == IF b = 0 THEN a ELSE GCD(b, a % b)

\* the rational n/d in lowest terms, d # 0
Rat(n, d) ==
    LET g == GCD(AbsInt(n), AbsInt(d))
        sg == IF d < 0 THEN -1 ELSE 1
    IN  <<sg * (n \div g), sg * (d \div g)>>

Num(i) == <<i, 1>>
Zero == <<0, 1>>
One == <<1, 1>>

RAdd(a, b) ==
    IF IsNaN(a) \/ IsNaN(b) THEN NaN
    ELSE LET g == GCD(a[2], b[2])
         IN  Rat(a[1] * (b[2] \div g) + b[1] * (a[2] \div g), (a[2] \div g) * b[2])

RNeg(a) == IF IsNaN(a) THEN NaN ELSE <<-a[1], a[2]>>

RSub(a, b) == RAdd(a, RNeg(b))

RMul(a, b) ==
    IF IsNaN(a) \/ IsNaN(b) THEN NaN
    ELSE LET g1 == GCD(AbsInt(a[1]), b[2])
             g2 == GCD(AbsInt(b[1]), a[2])
         IN  Rat((a[1] \div g1) * (b[1] \div g2), (a[2] \div g2) * (b[2] \div g1))

\* a / b for b # 0 (a numpy division by exactly zero is not reached, see Construct)
RDiv(a, b) ==
    IF IsNaN(a) \/ IsNaN(b) \/ b[1] = 0 THEN NaN
    ELSE RMul(a, Rat(b[2], b[1]))

\* sign of a - b for two numbers that are not NaN
Cmp(a, b) ==
    LET g == GCD(a[2], b[2])
        l == a[1] * (b[2] \div g)
        r == b[1] * (a[2] \div g)
    IN  IF l < r THEN -1 ELSE IF l > r THEN 1 ELSE 0

RLt(a, b) == ~IsNaN(a) /\ ~IsNaN(b) /\ Cmp(a, b) < 0
RLe(a, b) == ~IsNaN(a) /\ ~IsNaN(b) /\ Cmp(a, b) <= 0
RGt(a, b) == RLt(b, a)
RGe(a, b) == RLe(b, a)

\* floor of a rational that is not NaN (\div rounds towards minus infinity)
Floor(a) == a[1] \div a[2]

RECURSIVE TwoPow(_)
TwoPow(k) == IF k = 0 THEN 1 ELSE 2 * TwoPow(k - 1)

\* x rounded down to a multiple of 1/2^bits: the finite precision of a float result
Quantize(x, bits) == Rat(Floor(RMul(x, Num(TwoPow(bits)))), TwoPow(bits))

(***************************** float functions ******************************)
\* binary digits kept by a result of np.log
LogBits == 4
\* binary digits of the mantissa kept by a result of np.exp
MantBits == 2
\* np.exp underflows to 0.0 below 2^-MinExp
MinExp == 8
\* machine epsilon is 2^-EpsBits
EpsBits == 10

eps == Rat(1, TwoPow(EpsBits))

\* log2 by linear interpolation between the powers of two, q > 0
RECURSIVE Log2PL(_)
Log2PL(q) ==
    IF RGe(q, Num(2)) THEN RAdd(One, Log2PL(RDiv(q, Num(2))))
    ELSE IF RLt(q, One) THEN RSub(Log2PL(RMul(q, Num(2))), One)
    ELSE RSub(q, One)

\* np.log: ln q = log2 q * ln 2 with ln 2 ~ 11/16, rounded; NaN for NaN and for q < 0
\* (q = 0, where np.log gives -inf, is outside the enumerated terrain)
Ln(q) ==
    IF IsNaN(q) \/ ~RGt(q, Zero) THEN NaN
    ELSE Quantize(RMul(Log2PL(q), Rat(11, 16)), LogBits)

\* 2^x by linear interpolation between the integers, mantissa rounded, with underflow
Pow2PL(x) ==
    LET k == Floor(x)
        mant == RAdd(One, Quantize(RSub(x, Num(k)), MantBits))
    IN  IF k < -MinExp THEN Zero
        ELSE IF k < 0 THEN RDiv(mant, Num(TwoPow(-k)))
        ELSE RMul(mant, Num(TwoPow(k)))

\* np.exp: e^x = 2^(x * log2 e) with log2 e ~ 23/16
Exp(x) == IF IsNaN(x) THEN NaN ELSE Pow2PL(RMul(x, Rat(23, 16)))

\* np.tan(np.radians(deg)) at the slopes of the enumerated terrain, 0 and 45 degrees
TanDeg(deg) ==
    IF deg = Num(45) THEN One
    ELSE IF deg = Zero THEN Zero
    ELSE NaN

\* n ** 0.5 for the perfect squares n that occur as cell areas
Sqrt(n) == Num(CHOOSE r \in 0..n : r * r = n)

(***************************** grids ****************************************)
\* a numpy array: the grid g with every cell evaluated, a tuple of tuples
RECURSIVE Evaluated(_)
Evaluated(g) == IF g = <<>> THEN <<>> ELSE <<Head(g) \o <<>>>> \o Evaluated(Tail(g))


Cells(g) == {rc \in (1..Len(g)) \X (1..MaxCols + 1) : rc[2] <= Len(g[rc[1]])}

At(g, rc) == g[rc[1]][rc[2]]

\* the cells of g in row-major order
RECURSIVE Flat(_)
Flat(g) == IF g = <<>> THEN <<>> ELSE Head(g) \o Flat(Tail(g))

\* np.nansum: the sum of the elements that are not NaN
RECURSIVE NanSumSeq(_)
NanSumSeq(s) ==
    IF s = <<>> THEN Zero
    ELSE IF IsNaN(Head(s)) THEN NanSumSeq(Tail(s))
    ELSE RAdd(Head(s), NanSumSeq(Tail(s)))

NanSum(g) == NanSumSeq(Flat(g))

NotNaNCount(g) == Cardinality({rc \in Cells(g) : ~IsNaN(At(g, rc))})

\* np.nanmean: the mean of the elements that are not NaN, NaN when there is none
NanMean(g) ==
    IF NotNaNCount(g) = 0 THEN NaN
    ELSE RDiv(NanSum(g), Num(NotNaNCount(g)))

\* s with x inserted before the first element greater than x
RECURSIVE Insert(_, _)
Insert(x, s) ==
    IF s = <<>> THEN <<x>>
    ELSE IF RLe(x, Head(s)) THEN <<x>> \o s
    ELSE <<Head(s)>> \o Insert(x, Tail(s))

RECURSIVE Sorted(_)
Sorted(s) == IF s = <<>> THEN <<>> ELSE Insert(Head(s), Sorted(Tail(s)))

\* np.percentile(v, q) of a non-empty v, numpy's default linear interpolation
Percentile(v, q) ==
    LET sv == Sorted(v)
        n == Len(sv)
        idx == RMul(RDiv(q, Num(100)), Num(n - 1))
        lo == Floor(idx)
        fr == RSub(idx, Num(lo))
    IN  IF lo + 1 >= n THEN sv[n]
        ELSE RAdd(sv[lo + 1], RMul(fr, RSub(sv[lo + 2], sv[lo + 1])))

(***************************** Topmodel_Homogenous **************************)
\* the argument S_initial: None when it is not given
None == [given |-> FALSE, val |-> NaN]
Given(v) == [given |-> TRUE, val |-> v]

\* Python's truth value of S_initial: None and 0.0 are false, every other float is true
Truthy(arg) == arg.given /\ arg.val # Zero

\* the value S_initial holds after lines 41-42
InitialDeficit(pp, S_initial) == IF ~Truthy(S_initial) THEN pp.so ELSE S_initial.val

\* len(~np.isnan(cmask)) * 16: the number of rows of the mask times 16
CellAreaOf(cmask) == Len(cmask) * 16

ActiveCells(cmask) == {rc \in Cells(cmask) : At(cmask, rc) = One}

\* the area of every cell of the grid, the inactive ones included
CatchmentAreaOf_AllCells(cmask) == Cardinality(Cells(cmask)) * CellAreaOf(cmask)

\* np.size(cmask[cmask == 1]) * CellArea
CatchmentAreaOf(cmask) == Cardinality(ActiveCells(cmask)) * CellAreaOf(cmask)

\* the grid used without the mask
Masked_Unmasked(grid, cmask) == grid

\* flowacc * cmask and slope * cmask: NaN wherever the mask is NaN
Masked(grid, cmask) ==
    Evaluated([r \in DOMAIN grid |-> [c \in DOMAIN grid[r] |->
        RMul(grid[r][c], cmask[r][c])]])

\* xi = np.log(a / dx / (np.tan(slope_rad) + eps)), before the cutoff
RawIndex(a, slope, dx) ==
    Evaluated([r \in DOMAIN a |-> [c \in DOMAIN a[r] |->
        Ln(RDiv(RDiv(a[r][c], dx), RAdd(TanDeg(slope[r][c]), eps)))]])

\* xi[xi > 0] in row-major order
RECURSIVE PositiveOf(_)
PositiveOf(s) ==
    IF s = <<>> THEN <<>>
    ELSE IF RGt(Head(s), Zero) THEN <<Head(s)>> \o PositiveOf(Tail(s))
    ELSE PositiveOf(Tail(s))

\* the percentile of every defined index, the non-positive ones included
Cutoff_AllValues(xi, twi_cutoff) ==
    IF SelectSeq(Flat(xi), LAMBDA x : ~IsNaN(x)) = <<>> THEN NaN
    ELSE Percentile(SelectSeq(Flat(xi), LAMBDA x : ~IsNaN(x)), twi_cutoff)

\* clim = np.percentile(xi[xi > 0], twi_cutoff); of no values, NaN (where numpy returns it)
Cutoff(xi, twi_cutoff) ==
    IF PositiveOf(Flat(xi)) = <<>> THEN NaN
    ELSE Percentile(PositiveOf(Flat(xi)), twi_cutoff)

\* xi[xi > clim] = clim
ApplyCutoff(xi, clim) ==
    Evaluated([r \in DOMAIN xi |-> [c \in DOMAIN xi[r] |->
        IF RGt(xi[r][c], clim) THEN clim ELSE xi[r][c]]])

\* xi * CellArea
TimesArea(xi, CellArea) ==
    Evaluated([r \in DOMAIN xi |-> [c \in DOMAIN xi[r] |-> RMul(xi[r][c], Num(CellArea))]])

\* the mean taken over every cell of the grid, the inactive ones counted
CatchmentMeanIndex_AllCells(xi, CellArea, CatchmentArea) ==
    RDiv(NanSum(TimesArea(xi, CellArea)), Num(Cardinality(Cells(xi)) * CellArea))

\* X = 1.0 / CatchmentArea * np.nansum(xi * CellArea), CatchmentArea # 0
CatchmentMeanIndex(xi, CellArea, CatchmentArea) ==
    RMul(RDiv(One, Num(CatchmentArea)), NanSum(TimesArea(xi, CellArea)))

\* s = Smean + M * (X - xi)
local_s(self, Smean) ==
    Evaluated([r \in DOMAIN self.xi |-> [c \in DOMAIN self.xi[r] |->
        RAdd(Smean, RMul(self.M, RSub(self.X, self.xi[r][c])))]])

\* the deficit and the soil depth exchanged in the exponent
subsurfaceflow_Swapped(self) ==
    RMul(self.Qo, Exp(RDiv(RNeg(self.M), RAdd(self.S, eps))))

\* Qb = Qo * np.exp(-S / (M + eps))
subsurfaceflow(self) ==
    RMul(self.Qo, Exp(RDiv(RNeg(self.S), RAdd(self.M, eps))))

\* s[s < 0] = 0.0
ClampNegative(s) ==
    Evaluated([r \in DOMAIN s |-> [c \in DOMAIN s[r] |->
        IF RLt(s[r][c], Zero) THEN Zero ELSE s[r][c]]])

\* self.S = np.nanmean(s) of the clamped local field of the initial deficit
InitialState(self, S_initial) == NanMean(ClampNegative(local_s(self, S_initial)))

\* np.full_like(cmask, 0.0)
ZerosLike(cmask) == Evaluated([r \in DOMAIN cmask |-> [c \in DOMAIN cmask[r] |-> Zero]])

\* the constructor: [ok, err, self].  emptyPct is what np.percentile does with an
\* empty array in the numpy at hand: "raise" (IndexError) or "nan"
Topmodel_Homogenous(pp, S_initial, emptyPct) ==
    LET S0 == InitialDeficit(pp, S_initial)
        cmask == pp.cmask
        CellArea == CellAreaOf(cmask)
        dx == Sqrt(CellArea)
        CatchmentArea == CatchmentAreaOf(cmask)
        a == Masked(pp.flowacc, cmask)
        slope == Masked(pp.slope, cmask)
        To == RMul(pp.ko, pp.dt)
        raw == RawIndex(a, slope, dx)
        clim == Cutoff(raw, pp.twi_cutoff)
        xi == ApplyCutoff(raw, clim)
        X == CatchmentMeanIndex(xi, CellArea, CatchmentArea)
        self0 == [dt |-> pp.dt, CellArea |-> CellArea, CatchmentArea |-> CatchmentArea,
                  qr |-> ZerosLike(cmask), a |-> a, slope |-> slope,
                  M |-> pp.m, To |-> To, xi |-> xi, X |-> X,
                  Qo |-> RMul(To, Exp(RNeg(X))), S |-> NaN]
    IN  IF PositiveOf(Flat(raw)) = <<>> /\ emptyPct = "raise"
        THEN [ok |-> FALSE, err |-> "IndexError", self |-> <<>>]
        ELSE IF CatchmentArea = 0
        THEN [ok |-> FALSE, err |-> "ZeroDivisionError", self |-> <<>>]
        ELSE [ok |-> TRUE, err |-> "",
              self |-> <<[self0 EXCEPT !.S = InitialState(self0, S0)]>>]

\* the negated deficit field stored as it is, its negative values kept
ReturnflowGrid_Unclamped(s) ==
    Evaluated([r \in DOMAIN s |-> [c \in DOMAIN s[r] |-> RNeg(s[r][c])]])

\* the returnflow grid: self.qr = -s; self.qr[self.qr < 0] = 0.0
ReturnflowGrid(s) ==
    ClampNegative(Evaluated([r \in DOMAIN s |-> [c \in DOMAIN s[r] |-> RNeg(s[r][c])]]))

\* the count of the cells that are not positive, NaN cells included
SaturatedCount_NotPositive(s) == Cardinality({rc \in Cells(s) : ~RGt(At(s, rc), Zero)})

\* len(np.where(s <= 0)[0])
SaturatedCount(s) == Cardinality({rc \in Cells(s) : RLe(At(s, rc), Zero)})

\* the final update with the return flow added back to the store
FinalDeficit_Subtract(S, Qr) == RSub(S, Qr)

\* S = S + Qr (line 141)
FinalDeficit(S, Qr) == RAdd(S, Qr)

\* the dictionary with the deficit converted to millimetres like the fluxes
ResultRecord_ScaledS(Qb, mbe, self) ==
    [baseflow |-> RMul(Qb, Num(1000)),
     water_closure |-> RMul(mbe, Num(1000)),
     saturated_area |-> RMul(self.S, Num(1000))]

\* the returned dictionary (lines 156-160)
ResultRecord(Qb, mbe, self) ==
    [baseflow |-> RMul(Qb, Num(1000)),
     water_closure |-> RMul(mbe, Num(1000)),
     saturated_area |-> self.S]

\* a call that commits the recharge to the store first and computes the baseflow
\* from the state it has just written
run_timestep_UpdateFirst(self, R) ==
    LET So == self.S
        P == RSub(So, R)
        Qr0 == RDiv(RMul(NanSum(ReturnflowGrid(local_s(self, P))), Num(self.CellArea)),
                    Num(self.CatchmentArea))
        Qb == subsurfaceflow([self EXCEPT !.S = RAdd(P, Qr0)])
        S1 == RSub(RAdd(So, Qb), R)
        s == local_s(self, S1)
        qr == ReturnflowGrid(s)
        Qr == RDiv(RMul(NanSum(qr), Num(self.CellArea)), Num(self.CatchmentArea))
        S == FinalDeficit(S1, Qr)
        self1 == [self EXCEPT !.qr = qr, !.S = S]
        fsat == Rat(SaturatedCount(s) * self.CellArea, self.CatchmentArea)
        dS == RSub(So, self1.S)
        dF == RSub(RSub(R, Qb), Qr)
        mbe == RSub(dS, dF)
    IN  [self |-> self1,
         results |-> ResultRecord(Qb, mbe, self1),
         frame |-> [R |-> R, So |-> So, Qb |-> Qb, S1 |-> S1, s |-> s, Qr |-> Qr,
                    fsat |-> fsat, dS |-> dS, dF |-> dF, mbe |-> mbe]]

\* one call run_timestep(R): the instance after it, the returned dictionary and
\* the values of the call's local variables
run_timestep(self, R) ==
    LET So == self.S
        Qb == subsurfaceflow(self)
        S1 == RSub(RAdd(So, Qb), R)
        s == local_s(self, S1)
        qr == ReturnflowGrid(s)
        Qr == RDiv(RMul(NanSum(qr), Num(self.CellArea)), Num(self.CatchmentArea))
        S == FinalDeficit(S1, Qr)
        self1 == [self EXCEPT !.qr = qr, !.S = S]
        fsat == Rat(SaturatedCount(s) * self.CellArea, self.CatchmentArea)
        dS == RSub(So, self1.S)
        dF == RSub(RSub(R, Qb), Qr)
        mbe == RSub(dS, dF)
    IN  [self |-> self1,
         results |-> ResultRecord(Qb, mbe, self1),
         frame |-> [R |-> R, So |-> So, Qb |-> Qb, S1 |-> S1, s |-> s, Qr |-> Qr,
                    fsat |-> fsat, dS |-> dS, dF |-> dF, mbe |-> mbe]]

(***************************** inputs ***************************************)
\* one cell of the terrain: mask (1 = catchment cell, NaN outside), flow accumulation
\* per unit contour length [m], slope [deg]
CellKinds ==
    <<[cmask |-> NaN, flowacc |-> Num(16), slope |-> Num(45)],
      [cmask |-> One, flowacc |-> Num(2), slope |-> Num(45)],
      [cmask |-> One, flowacc |-> Num(16), slope |-> Num(45)],
      [cmask |-> One, flowacc |-> Num(16), slope |-> Zero]>>

\* one-row terrains of 1..MaxCols cells, one for every multiset of cell kinds
Terrains ==
    UNION {{[i \in 1..n |-> CellKinds[f[i]]] :
                f \in {f \in [1..n -> DOMAIN CellKinds] :
                          \A i \in 1..(n - 1) : f[i] <= f[i + 1]}} :
           n \in 1..MaxCols}

\* the parameter dictionary pp over a terrain (dt, twi_cutoff, so as in ptopmodel())
ParamDict(tr, ko, m, q) ==
    [dt |-> Num(86400), ko |-> ko, m |-> m, twi_cutoff |-> q, so |-> Rat(1, 16),
     cmask |-> <<[i \in DOMAIN tr |-> tr[i].cmask]>>,
     flowacc |-> <<[i \in DOMAIN tr |-> tr[i].flowacc]>>,
     slope |-> <<[i \in DOMAIN tr |-> tr[i].slope]>>]

\* (ko, m, twi_cutoff): the default soil with the cutoff at the maximum or the median,
\* no transmissivity, no soil depth
SoilKinds ==
    {<<Rat(1, 1000), Rat(1, 32), Num(50)>>, <<Rat(1, 1000), Rat(1, 32), Num(100)>>,
     <<Zero, Rat(1, 32), Num(50)>>, <<Rat(1, 1000), Zero, Num(50)>>}

InitialArgs == {None, Given(Zero), Given(Rat(1, 4)), Given(Rat(-1, 8))}

\* the constructor calls: every S_initial on the default soil with the median cutoff,
\* the other soils without S_initial
Configurations ==
    {<<ParamDict(tr, Rat(1, 1000), Rat(1, 32), Num(50)), a>> :
        tr \in Terrains, a \in InitialArgs}
    \cup {<<ParamDict(tr, k[1], k[2], k[3]), None>> : tr \in Terrains, k \in SoilKinds}

\* recharge of one timestep [m]
Recharges == {Rat(-1, 16), Zero, Rat(1, 2)}

\* arguments of the direct local_s calls
MeanDeficits == {Rat(-1, 4), Rat(1, 3)}

(***************************** state ****************************************)
VARIABLES
    pp,        \* the parameter dictionary given to the constructor
    S_initial, \* the constructor's argument S_initial
    pc,        \* "new" before the constructor ran, then "ready" or "error"
    err,       \* the exception the constructor raised, "" if none
    inst,      \* <<self>> once the constructor returned, <<>> while no instance exists
    hist,      \* the recharge of every run_timestep call so far
    frame,     \* <<locals>> of the latest run_timestep call
    ret,       \* the latest method call, its argument and what it returned
    obs        \* every (S, Qb) pair subsurfaceflow was evaluated at

vars == <<pp, S_initial, pc, err, inst, hist, frame, ret, obs>>

Init ==
    /\ \E c \in Configurations : pp = c[1] /\ S_initial = c[2]
    /\ pc = "new"
    /\ err = ""
    /\ inst = <<>>
    /\ hist = <<>>
    /\ frame = <<>>
    /\ ret = [op |-> "none", arg |-> NaN, val |-> NaN]
    /\ obs = {}

\* Topmodel_Homogenous(pp, S_initial): an instance, or an exception and no instance
Construct ==
    /\ pc = "new"
    /\ \E emptyPct \in {"nan", "raise"} :
        LET r == Topmodel_Homogenous(pp, S_initial, emptyPct)
        IN  /\ pc' = IF r.ok THEN "ready" ELSE "error"
            /\ err' = r.err
            /\ inst' = r.self
    /\ UNCHANGED <<pp, S_initial, hist, frame, ret, obs>>

\* results = self.run_timestep(R)
RunTimestep ==
    /\ pc = "ready"
    /\ Len(hist) < MaxSteps
    /\ \E R \in Recharges :
        LET r == run_timestep(inst[1], R)
        IN  /\ inst' = <<r.self>>
            /\ ret' = [op |-> "run_timestep", arg |-> R, val |-> r.results]
            /\ frame' = <<r.frame>>
            /\ hist' = Append(hist, R)
            /\ obs' = obs \cup {[S |-> r.frame.So, Qb |-> r.frame.Qb]}
    /\ UNCHANGED <<pp, S_initial, pc, err>>

\* a local_s that computes in place: the index grid is overwritten with the result
CallLocalS_InPlace ==
    /\ pc = "ready"
    /\ \E Smean \in MeanDeficits :
        /\ ret' = [op |-> "local_s", arg |-> Smean, val |-> local_s(inst[1], Smean)]
        /\ inst' = <<[inst[1] EXCEPT !.xi = local_s(inst[1], Smean)]>>
    /\ UNCHANGED <<pp, S_initial, pc, err, hist, frame, obs>>

\* a direct call self.local_s(Smean)
CallLocalS ==
    /\ pc = "ready"
    /\ \E Smean \in MeanDeficits :
        ret' = [op |-> "local_s", arg |-> Smean, val |-> local_s(inst[1], Smean)]
    /\ UNCHANGED <<pp, S_initial, pc, err, inst, hist, frame, obs>>

\* a direct call self.subsurfaceflow()
CallSubsurfaceflow ==
    /\ pc = "ready"
    /\ ret' = [op |-> "subsurfaceflow", arg |-> NaN, val |-> subsurfaceflow(inst[1])]
    /\ obs' = obs \cup {[S |-> inst[1].S, Qb |-> subsurfaceflow(inst[1])]}
    /\ UNCHANGED <<pp, S_initial, pc, err, inst, hist, frame>>

Next == Construct \/ RunTimestep \/ CallLocalS \/ CallSubsurfaceflow

Spec == Init /\ [][Next]_vars

(***************************** rounded arithmetic ***************************)
\* The same program with every float operation rounded to the nearest float.
\* A float has Prec significant binary digits; eps is the gap between 1.0 and the
\* next float (line 17), so Prec = EpsBits + 1.
Prec == EpsBits + 1

\* n / d > 0 rounded to Prec significant binary digits, ties to even: <<m, e>> with
\* the float m * 2^e; n / d is scaled by powers of two until 2^(Prec-1) <= n / d < 2^Prec
RECURSIVE RoundScaled(_, _, _)
RoundScaled(n, d, e) ==
    IF n \div d >= TwoPow(Prec)
    THEN IF n % 2 = 0 THEN RoundScaled(n \div 2, d, e + 1) ELSE RoundScaled(n, 2 * d, e + 1)
    ELSE IF n \div d < TwoPow(Prec - 1)
    THEN IF d % 2 = 0 THEN RoundScaled(n, d \div 2, e - 1) ELSE RoundScaled(2 * n, d, e - 1)
    ELSE IF 2 * (n % d) > d \/ (2 * (n % d) = d /\ (n \div d) % 2 = 1)
    THEN <<(n \div d) + 1, e>>
    ELSE <<n \div d, e>>

\* the float nearest to the number v, ties to even
Nearest(v) ==
    IF IsNaN(v) \/ v = Zero THEN v
    ELSE LET me == RoundScaled(AbsInt(v[1]), v[2], 0)
             m == IF v[1] < 0 THEN -me[1] ELSE me[1]
         IN  IF me[2] >= 0 THEN <<m * TwoPow(me[2]), 1>> ELSE Rat(m, TwoPow(-me[2]))

\* the result x of an operation rounded to the nearest float (x is evaluated once)
Fl(x) == CHOOSE y \in {Nearest(v) : v \in {x}} : TRUE

\* float +, -, *, /
FAdd(a, b) == Fl(RAdd(a, b))
FSub(a, b) == Fl(RSub(a, b))
FMul(a, b) == Fl(RMul(a, b))
FDiv(a, b) == Fl(RDiv(a, b))

\* np.nansum, accumulated in floats from 0.0
RECURSIVE FNanSumFrom(_, _)
FNanSumFrom(acc, s) ==
    IF s = <<>> THEN acc
    ELSE FNanSumFrom(IF IsNaN(Head(s)) THEN acc ELSE FAdd(acc, Head(s)), Tail(s))

FNanSum(g) == FNanSumFrom(Zero, Flat(g))

\* np.nanmean in floats
FNanMean(g) ==
    IF NotNaNCount(g) = 0 THEN NaN
    ELSE FDiv(FNanSum(g), Num(NotNaNCount(g)))

\* a grid of floats from a grid of reals
FlGrid(g) == Evaluated([r \in DOMAIN g |-> [c \in DOMAIN g[r] |-> Fl(g[r][c])]])

\* xi = np.log(a / dx / (np.tan(slope_rad) + eps)) in floats, before the cutoff
FRawIndex(a, slope, dx) ==
    Evaluated([r \in DOMAIN a |-> [c \in DOMAIN a[r] |->
        Fl(Ln(FDiv(FDiv(a[r][c], dx), FAdd(TanDeg(slope[r][c]), eps))))]])

\* X = 1.0 / CatchmentArea * np.nansum(xi * CellArea) in floats
FCatchmentMeanIndex(xi, CellArea, CatchmentArea) ==
    FMul(FDiv(One, Num(CatchmentArea)), FNanSum(FlGrid(TimesArea(xi, CellArea))))

\* s = Smean + M * (X - xi) in floats
local_s_float(self, Smean) ==
    Evaluated([r \in DOMAIN self.xi |-> [c \in DOMAIN self.xi[r] |->
        FAdd(Smean, FMul(self.M, FSub(self.X, self.xi[r][c])))]])

\* Qb = Qo * np.exp(-S / (M + eps)) in floats
subsurfaceflow_float(self) ==
    FMul(self.Qo, Fl(Exp(FDiv(RNeg(self.S), FAdd(self.M, eps)))))

\* the constructor in floats: [ok, err, self]
Topmodel_Homogenous_float(p, S_init, emptyPct) ==
    LET S0 == InitialDeficit(p, S_init)
        cmask == p.cmask
        CellArea == CellAreaOf(cmask)
        dx == Sqrt(CellArea)
        CatchmentArea == CatchmentAreaOf(cmask)
        a == Masked(p.flowacc, cmask)
        slope == Masked(p.slope, cmask)
        To == FMul(p.ko, p.dt)
        raw == FRawIndex(a, slope, dx)
        clim == Fl(Cutoff(raw, p.twi_cutoff))
        xi == ApplyCutoff(raw, clim)
        X == FCatchmentMeanIndex(xi, CellArea, CatchmentArea)
        self0 == [dt |-> p.dt, CellArea |-> CellArea, CatchmentArea |-> CatchmentArea,
                  qr |-> ZerosLike(cmask), a |-> a, slope |-> slope,
                  M |-> p.m, To |-> To, xi |-> xi, X |-> X,
                  Qo |-> FMul(To, Fl(Exp(RNeg(X)))), S |-> NaN]
    IN  IF PositiveOf(Flat(raw)) = <<>> /\ emptyPct = "raise"
        THEN [ok |-> FALSE, err |-> "IndexError", self |-> <<>>]
        ELSE IF CatchmentArea = 0
        THEN [ok |-> FALSE, err |-> "ZeroDivisionError", self |-> <<>>]
        ELSE [ok |-> TRUE, err |-> "",
              self |-> <<[self0 EXCEPT
                            !.S = FNanMean(ClampNegative(local_s_float(self0, S0)))]>>]

\* the cells of the terrains run in floats: mask, flow accumulation, slope
FloatCellKinds ==
    <<[cmask |-> NaN, flowacc |-> Num(16), slope |-> Num(45)],
      [cmask |-> One, flowacc |-> Num(16), slope |-> Zero],
      [cmask |-> One, flowacc |-> Num(50), slope |-> Num(45)],
      [cmask |-> One, flowacc |-> Num(50), slope |-> Zero]>>

FloatTerrains ==
    UNION {{[i \in 1..n |-> FloatCellKinds[f[i]]] :
                f \in {f \in [1..n -> DOMAIN FloatCellKinds] :
                          \A i \in 1..(n - 1) : f[i] <= f[i + 1]}} :
           n \in 1..MaxCols}

\* the parameter dictionary of ptopmodel() over a terrain, its values as floats
FloatParams(tr) ==
    [dt |-> Num(86400), ko |-> Fl(Rat(1, 1000)), m |-> Fl(Rat(1, 40)),
     twi_cutoff |-> Rat(199, 2), so |-> Fl(Rat(1, 20)),
     cmask |-> <<[i \in DOMAIN tr |-> tr[i].cmask]>>,
     flowacc |-> <<[i \in DOMAIN tr |-> tr[i].flowacc]>>,
     slope |-> <<[i \in DOMAIN tr |-> tr[i].slope]>>]

\* the constructor calls run in floats
FloatConfigurations ==
    {<<FloatParams(tr), a>> : tr \in FloatTerrains, a \in {None, Given(Rat(-1, 8))}}

\* recharge of one timestep [m], floats
FloatRecharges == {Zero, Rat(1, 2), Num(2), Fl(Rat(3, 10))}

InitRounded ==
    /\ \E c \in FloatConfigurations : pp = c[1] /\ S_initial = c[2]
    /\ pc = "new"
    /\ err = ""
    /\ inst = <<>>
    /\ hist = <<>>
    /\ frame = <<>>
    /\ ret = [op |-> "none", arg |-> NaN, val |-> NaN]
    /\ obs = {}

\* Topmodel_Homogenous(pp, S_initial) in floats
ConstructRounded ==
    /\ pc = "new"
    /\ \E emptyPct \in {"nan", "raise"} :
        LET r == Topmodel_Homogenous_float(pp, S_initial, emptyPct)
        IN  /\ pc' = IF r.ok THEN "ready" ELSE "error"
            /\ err' = r.err
            /\ inst' = r.self
    /\ UNCHANGED <<pp, S_initial, hist, frame, ret, obs>>

\* results = self.run_timestep(R) in floats: each local variable of the call is
\* computed once, in the order of lines 120-160
RunTimestepRounded ==
    /\ pc = "ready"
    /\ Len(hist) < MaxSteps
    /\ \E R \in FloatRecharges :
       \E So \in {inst[1].S} :
       \E Qb \in {subsurfaceflow_float(inst[1])} :
       \E S1 \in {FSub(FAdd(So, Qb), R)} :
       \E s \in {local_s_float(inst[1], S1)} :
       \E qr \in {ReturnflowGrid(s)} :
       \E Qr \in {FDiv(FMul(FNanSum(qr), Num(inst[1].CellArea)),
                       Num(inst[1].CatchmentArea))} :
       \E S \in {FAdd(S1, Qr)} :
       \E fsat \in {Fl(Rat(SaturatedCount(s) * inst[1].CellArea,
                           inst[1].CatchmentArea))} :
       \E dS \in {FSub(So, S)} :
       \E dF \in {FSub(FSub(R, Qb), Qr)} :
       \E mbe \in {FSub(dS, dF)} :
            /\ inst' = <<[inst[1] EXCEPT !.qr = qr, !.S = S]>>
            /\ ret' = [op |-> "run_timestep", arg |-> R,
                       val |-> [baseflow |-> FMul(Qb, Num(1000)),
                                water_closure |-> FMul(mbe, Num(1000)),
                                saturated_area |-> S]]
            /\ frame' = <<[R |-> R, So |-> So, Qb |-> Qb, S1 |-> S1, s |-> s,
                           Qr |-> Qr, fsat |-> fsat, dS |-> dS, dF |-> dF,
                           mbe |-> mbe]>>
            /\ hist' = Append(hist, R)
            /\ obs' = obs \cup {[S |-> So, Qb |-> Qb]}
    /\ UNCHANGED <<pp, S_initial, pc, err>>

NextRounded == ConstructRounded \/ RunTimestepRounded

SpecRounded == InitRounded /\ [][NextRounded]_vars

(***************************** claims ***************************************)
self == inst[1]
locals == frame[1]
stepped == frame # <<>>

Active == ActiveCells(pp.cmask)

RECURSIVE SumCells(_, _)
SumCells(cells, g) ==
    IF cells = {} THEN Zero
    ELSE LET c == CHOOSE c \in cells : TRUE
         IN  RAdd(At(g, c), SumCells(cells \ {c}, g))

\* the mean of g over the active cells
ActiveMean(g) == RDiv(SumCells(Active, g), Num(Cardinality(Active)))

\* C1: in every run_timestep call the mass-balance residual
\* (S_prev - S_new) - (recharge - Qb - Qr) is zero, for every recharge
C1_MassBalance ==
    stepped =>
        /\ locals.mbe = Zero
        /\ RSub(RSub(locals.So, self.S),
                RSub(RSub(locals.R, locals.Qb), locals.Qr)) = Zero

\* a second call with return flow, after a call with negative recharge and baseflow
C1_Witness ==
    /\ Len(hist) = 2
    /\ RLt(hist[1], Zero)
    /\ \E o \in obs : RGt(o.Qb, Zero)
    /\ RGt(locals.Qr, Zero)
    /\ self.S # locals.So
    /\ locals.mbe = Zero

\* C2: the mean over the active cells of local_s(Smean) is Smean, in a direct call
\* and in the call run_timestep makes on the provisional state
C2_LocalMean ==
    /\ ret.op = "local_s" => ActiveMean(ret.val) = ret.arg
    /\ stepped => ActiveMean(locals.s) = locals.S1

\* local_s(1/3) on two active cells, one with its index cut off
C2_Witness ==
    /\ ret.op = "local_s"
    /\ ret.arg = Rat(1, 3)
    /\ Cardinality(Active) = 2
    /\ \E c \in Active :
        At(self.xi, c) # At(RawIndex(self.a, self.slope, Sqrt(self.CellArea)), c)
    /\ \E c \in Active : At(ret.val, c) # ret.arg
    /\ ActiveMean(ret.val) = ret.arg

\* C3: the saturated-area fraction is in [0, 1], is 1 when every active cell's local
\* deficit of the provisional state is <= 0 and 0 when no active cell's is
C3_SaturatedFraction ==
    stepped =>
        /\ RLe(Zero, locals.fsat) /\ RLe(locals.fsat, One)
        /\ (\A c \in Active : RLe(At(locals.s, c), Zero)) => locals.fsat = One
        /\ (\A c \in Active : ~RLe(At(locals.s, c), Zero)) => locals.fsat = Zero

\* every active cell saturated beside an inactive cell: the fraction is 1
C3_Witness ==
    /\ stepped
    /\ Active # Cells(pp.cmask)
    /\ \A c \in Active : RLe(At(locals.s, c), Zero)
    /\ locals.fsat = One

\* the index before the cutoff and the percentile of its positive values, from pp
PreClampIndex == RawIndex(Masked(pp.flowacc, pp.cmask), Masked(pp.slope, pp.cmask),
                          Sqrt(CellAreaOf(pp.cmask)))

PreClampCutoff ==
    LET pos == SelectSeq(Flat(PreClampIndex), LAMBDA x : RGt(x, Zero))
    IN  IF pos = <<>> THEN NaN ELSE Percentile(pos, pp.twi_cutoff)

\* C4: after construction no stored index exceeds the twi_cutoff percentile of the
\* positive pre-clamp values, and an index at or below it is stored unchanged; it is
\* looked at when the constructor returns and again after every run_timestep
C4_CutoffEnforced ==
    (pc = "ready" /\ ret.op \in {"none", "run_timestep"}) =>
        LET raw == PreClampIndex
            clim == PreClampCutoff
        IN  \A c \in Cells(pp.cmask) :
                /\ ~RGt(At(self.xi, c), clim)
                /\ RLe(At(raw, c), clim) => At(self.xi, c) = At(raw, c)

\* a terrain with an index kept and an index cut off
C4_Witness ==
    /\ pc = "ready"
    /\ \E c \in Active : RGt(At(PreClampIndex, c), PreClampCutoff)
                            /\ At(self.xi, c) = PreClampCutoff
    /\ \E c \in Active : RGt(At(PreClampIndex, c), Zero)
                            /\ At(self.xi, c) = At(PreClampIndex, c)

\* C5: a mask without an active cell makes the constructor fail: no instance exists
\* and no timestep runs
C5_ZeroActiveFails ==
    Active = {} =>
        /\ pc \in {"new", "error"}
        /\ inst = <<>>
        /\ hist = <<>>
        /\ pc = "error" => err # ""

\* the constructor divided by the catchment area of zero cells
C5_Witness ==
    /\ Active = {}
    /\ Len(pp.cmask[1]) > 1
    /\ pc = "error"
    /\ err = "ZeroDivisionError"

\* the values of the dictionary run_timestep returned
Returned == {ret.val[k] : k \in DOMAIN ret.val}

\* C6: each run_timestep call hands the caller the saturated-area fraction and the
\* per-cell return-flow field, with baseflow, catchment return flow and the residual
C6_OutputsAvailable ==
    ret.op = "run_timestep" =>
        /\ self.qr = ReturnflowGrid(locals.s)
        /\ RMul(locals.Qb, Num(1000)) \in Returned
        /\ RMul(locals.mbe, Num(1000)) \in Returned
        /\ locals.fsat \in Returned
        /\ locals.Qr \in Returned \/ RMul(locals.Qr, Num(1000)) \in Returned

C8_InitialArgumentUsed ==
    (pc = "ready" /\ hist = <<>>) =>
        self.S = InitialState(self, IF S_initial.given THEN S_initial.val ELSE pp.so)

\* the values an inactive cell may carry instead: flow accumulation and slope
AltValues ==
    {[flowacc |-> Num(64), slope |-> Zero],
     [flowacc |-> Num(2), slope |-> Num(45)]}

\* g with its inactive cells replaced by alt's field
Replaced(g, alt, field) ==
    Evaluated([r \in 1..Len(g) |-> [c \in 1..Len(g[r]) |->
        IF <<r, c>> \in Active THEN g[r][c] ELSE alt[<<r, c>>][field]]])

\* the parameter dictionaries that differ from pp at inactive cells only
Variants ==
    {[pp EXCEPT !.flowacc = Replaced(pp.flowacc, alt, "flowacc"),
                !.slope = Replaced(pp.slope, alt, "slope")] :
        alt \in [Cells(pp.cmask) \ Active -> AltValues]}

\* the latest of the calls run_timestep(h[1]), ..., run_timestep(h[Len(h)]), h # <<>>
RECURSIVE Replay(_, _)
Replay(obj, h) ==
    LET r == run_timestep(obj, Head(h))
    IN  IF Len(h) = 1 THEN r ELSE Replay(r.self, Tail(h))

\* C9: an instance built from inputs that differ at inactive cells only has the same
\* X, Qo and initial S and, on the same recharges, the same Qb, Qr, saturated fraction
\* and S; sums, means and counts run over the active cells alone.  (A direct local_s
\* or subsurfaceflow call leaves the instance as it is, so the comparison is made
\* when the constructor or run_timestep returns.)
C9_InactiveExcluded ==
    /\ (pc = "ready" /\ ret.op = "none") =>
        \A v \in Variants :
            LET other == Topmodel_Homogenous(v, S_initial, "nan")
            IN  /\ other.ok
                /\ other.self[1].X = self.X
                /\ other.self[1].Qo = self.Qo
                /\ other.self[1].S = self.S
    /\ ret.op = "run_timestep" =>
        \A v \in Variants :
            LET r == Replay(Topmodel_Homogenous(v, S_initial, "nan").self[1], hist)
            IN  /\ r.self.S = self.S
                /\ r.frame.Qb = locals.Qb
                /\ r.frame.Qr = locals.Qr
                /\ r.frame.fsat = locals.fsat
    /\ pc = "ready" => self.X = ActiveMean(self.xi)
    /\ stepped =>
        /\ locals.Qr = ActiveMean(self.qr)
        /\ locals.fsat =
            Rat(Cardinality({c \in Active : RLe(At(locals.s, c), Zero)}),
                Cardinality(Active))

\* two calls on a terrain with an inactive cell, the second with return flow
C9_Witness ==
    /\ ret.op = "run_timestep"
    /\ Active # Cells(pp.cmask)
    /\ Len(hist) = 2
    /\ RGt(locals.Qr, Zero)
    /\ locals.fsat = One
    /\ \A v \in Variants :
        Replay(Topmodel_Homogenous(v, S_initial, "nan").self[1], hist).self.S = self.S

\* C10 as claimed: baseflow is strictly decreasing in the state it is computed from
C10_StrictlyDecreasing ==
    \A p, q \in obs : RLt(p.S, q.S) => RGt(p.Qb, q.Qb)

\* C10: baseflow is non-increasing in the state it is computed from
C10_NonIncreasing ==
    \A p, q \in obs : RLt(p.S, q.S) => RGe(p.Qb, q.Qb)

\* baseflow computed at two states, smaller at the larger deficit
C10_Witness ==
    \E p, q \in obs : RLt(p.S, q.S) /\ RGt(p.Qb, q.Qb) /\ RGt(q.Qb, Zero)

\* C11: every run_timestep call reads the state the call before it (or the
\* constructor) committed, computes the baseflow from that state before it writes S,
\* and the baseflow is the same whatever the recharge of the call is
C11_ExplicitBaseflow ==
    [][hist' # hist =>
        LET prev == inst[1]
            call == frame'[1]
        IN  /\ call.So = prev.S
            /\ call.R = hist'[Len(hist')]
            /\ call.Qb = RMul(prev.Qo, Exp(RDiv(RNeg(prev.S), RAdd(prev.M, eps))))
            /\ \A R \in Recharges : run_timestep(prev, R).frame.Qb = call.Qb
            /\ frame # <<>> => call.So = RAdd(frame[1].S1, frame[1].Qr)
            /\ inst'[1].S = RAdd(RSub(RAdd(prev.S, call.Qb), call.R), call.Qr)]_vars

\* a second call with another recharge than the first, on the state the first call
\* changed, with baseflow
C11_Witness ==
    /\ ret.op = "run_timestep"
    /\ Len(hist) = 2
    /\ hist[1] # hist[2]
    /\ RGt(locals.Qb, Zero)
    /\ \E o \in obs : o.S # locals.So
    /\ locals.S1 = RSub(RAdd(locals.So, locals.Qb), locals.R)

\* C12: with s = local_s(S_prev + Qb - recharge), the stored return-flow field is -s
\* at the active cells where s < 0 and 0 at the other active cells, so never negative;
\* Qr is its sum over the active cells divided by their number; the committed state
\* is S_prev + Qb - recharge + Qr
C12_ReturnFlow ==
    stepped =>
        LET P == RSub(RAdd(locals.So, locals.Qb), locals.R)
            s == local_s(self, P)
        IN  /\ locals.s = s
            /\ \A c \in Active :
                /\ RLt(At(s, c), Zero) => At(self.qr, c) = RNeg(At(s, c))
                /\ ~RLt(At(s, c), Zero) => At(self.qr, c) = Zero
                /\ RGe(At(self.qr, c), Zero)
            /\ locals.Qr = RDiv(SumCells(Active, self.qr), Num(Cardinality(Active)))
            /\ self.S = RAdd(P, locals.Qr)

\* a call that left one active cell over-saturated and another one not
C12_Witness ==
    /\ stepped
    /\ \E c \in Active : RLt(At(locals.s, c), Zero) /\ RGt(At(self.qr, c), Zero)
    /\ \E c \in Active : RGt(At(locals.s, c), Zero) /\ At(self.qr, c) = Zero
    /\ RGt(locals.Qr, Zero)
    /\ RGt(self.S, RSub(RAdd(locals.So, locals.Qb), locals.R))

\* C13: the state S is never negative, after the constructor and after every
\* run_timestep call, whatever the initial deficit and the recharges are
C13_NonNegative == pc = "ready" => RGe(self.S, Zero)

\* the values the constructor computes once
Static(obj) == <<obj.xi, obj.X, obj.M, obj.To, obj.Qo, obj.CellArea, obj.CatchmentArea>>

\* C14: a run_timestep call changes S and qr of the instance and nothing else, and
\* the S it stores is the final S' + Qr; a local_s or subsurfaceflow call changes
\* nothing of the instance; xi, X, M, To, Qo, CellArea and CatchmentArea keep the
\* values the constructor gave them
C14_FrameEffect ==
    [][(pc = "ready" /\ pc' = "ready") =>
        /\ Static(inst'[1]) = Static(inst[1])
        /\ hist' = hist => inst' = inst
        /\ hist' # hist =>
            /\ inst'[1] = [inst[1] EXCEPT !.S = inst'[1].S, !.qr = inst'[1].qr]
            /\ inst'[1].S = RAdd(frame'[1].S1, frame'[1].Qr)
            /\ inst'[1].qr = ReturnflowGrid(frame'[1].s)]_vars

\* direct calls after two timesteps that changed S and stored a return flow
C14_Witness ==
    /\ ret.op \in {"local_s", "subsurfaceflow"}
    /\ Len(hist) = 2
    /\ self.qr # ZerosLike(pp.cmask)
    /\ \E o \in obs : o.S # self.S
    /\ self.xi = ApplyCutoff(PreClampIndex, PreClampCutoff)
    /\ self.Qo = RMul(self.To, Exp(RNeg(self.X)))

====
